---- MODULE Spec2Model ----
(***************************************************************************)
(* Model of monitor.go: the per-server monitoring state machine            *)
(* (ServerMonitor.check), the slaves-list bookkeeping                      *)
(* (ServerMonitor.delete, append), the candidate election                  *)
(* (ServerMonitor.electCandidate), the write freeze (ServerMonitor.freeze) *)
(* and the slaves slice under the concurrent check() calls of one tick.    *)
(***************************************************************************)
EXTENDS Integers, Sequences, FiniteSets, TLC

(* ------------------------------ bounds --------------------------------- *)

\* Monitoring ticks explored.
MaxTicks == 4

\* maxfail is drawn from 1..MaxFailBound.
MaxFailBound == 3

\* Longest list of candidates handed to electCandidate.
MaxCands == 3

\* The configured maxDelay, in seconds.
maxDelay == 1

\* waitKill is drawn from the values around 0..MaxPolls poll intervals.
MaxPolls == 2

\* The monitored servers, by URL: the master and one replica to begin with.
Servers == {"db1:3306", "db2:3306"}

(* ------------------------------ constants ------------------------------ *)

stateFailed == "Failed"

stateMaster == "Master"

stateSlave == "Slave"

stateUnconn == "Unconnected"

stateSuspect == "Suspect"

States == {stateFailed, stateMaster, stateSlave, stateUnconn, stateSuspect}

\* What the probe of check() can come back with: a success (Ping ok, HTTP
\* 200), a failure with a response (Ping error, HTTP status other than 200),
\* or a network-layer error of http.Get (no response).
ProbeOutcomes == {"ok", "fail", "neterr"}

\* What dbhelper.GetSlaveStatus can come back with: a row, sql.ErrNoRows, or
\* another error.
SlaveStatusOutcomes == {"rows", "norows", "error"}

\* The URLs of the candidates of an election.
URLs == {"db2:3306", "db3:3306"}

\* The replicas whose check() goroutines of one tick are followed statement
\* by statement.
Replicas == {"db2:3306", "db3:3306"}

\* A replica that is in the slaves list and whose check() leaves it there.
Bystanders == {"db4:3306"}

\* Seconds_Behind_Master of a candidate, a sql.NullInt64: null, or a number
\* of seconds within or beyond maxDelay.
Delays ==
    {[Valid |-> FALSE, Int64 |-> 0], [Valid |-> TRUE, Int64 |-> 0],
     [Valid |-> TRUE, Int64 |-> maxDelay + 1]}

\* The sequence numbers of a candidate's SlaveGtid (GetSeqNos), one per
\* replication domain.
SeqNoLists == {<<>>, <<1>>, <<1, 1>>}

\* The states of the old master an election is run with: a switchover from
\* a live or suspected master, a failover from a failed one.
OldStates == {stateMaster, stateSuspect, stateFailed}

\* Lines 295 and 301: the milliseconds between two polls of freeze.
PollInterval == 500

\* The configured waitKill, in milliseconds: on, just after and just before
\* a multiple of the poll interval.
WaitKills == {k * PollInterval + d : k \in 0..MaxPolls, d \in {0, 1, PollInterval - 1}}

\* The values of MAX_CONNECTIONS a server is found with (it reads "0" on a
\* server frozen before), and those the maxConn slot holds from earlier.
MaxConnections == {"151", "0"}

MaxConnSlots == {"", "100"}

(* ------------------------------ state ---------------------------------- *)

VARIABLES
    State,       \* State[s]: ServerMonitor.State
    PrevState,   \* PrevState[s]: ServerMonitor.PrevState
    FailCount,   \* FailCount[s]: ServerMonitor.FailCount
    master,      \* the server the global master pointer designates
    slaves,      \* the global slaves list (a sequence of servers)
    maxfail,     \* configuration: maxfail
    mailTo,      \* configuration: mailTo # ""
    autorejoin,  \* configuration: autorejoin
    readonly,    \* configuration: readonly
    checktype,   \* configuration: "tcp" or "agent"
    checked,     \* servers whose check() of the current tick has returned
    tick,        \* ticks completed
    crashed,     \* the process died of a panic
    failRun,     \* failRun[s]: how many of the last probes of s failed in a row
    alerts,      \* alerts[s]: the Type of every alert mailed with Origin s, oldest first
    declMaster,  \* number of "WARN : Declaring master as failed" log lines
    issued,      \* the SQL statements the last check() issued on its server
    slaveStatus, \* what GetSlaveStatus gave the last check(), "none" if not called
    l,           \* electCandidate: the list of candidates (URLs)
    oldState,    \* electCandidate: server.State of the receiver (the old master)
    ignoreList,  \* configuration: ignoreList
    prefMaster,  \* configuration: prefMaster ("" when not set)
    multiMaster, \* configuration: multiMaster
    gtidCheck,   \* configuration: gtidCheck
    i,           \* electCandidate: index (from 0) of the next candidate of the loop
    seqList,     \* electCandidate: seqList, as a sequence
    hiseq,       \* electCandidate: hiseq (an index from 0)
    max,         \* electCandidate: max
    ret,         \* electCandidate: the value returned
    elpc,        \* electCandidate: "idle", "loop", "done"
    cands,       \* what the loop met: per candidate examined, whether it was
                 \* skipped and, if not, its delay and sequence numbers
    heap,        \* the backing arrays the slaves slice has had, by address
    slavesHdr,   \* the slice header of the global slaves: ptr, len, cap
    op,          \* op[s]: what the check() of replica s does to slaves this tick
    gpc,         \* gpc[s]: where the goroutine running check() of s stands
    local,       \* local[s]: the slice header that goroutine works on, and k
    waitKill,    \* configuration: waitKill, in milliseconds
    fpc,         \* freeze: the statement it stands before
    wait,        \* freeze: the loop variable i of line 295
    maxConn,     \* the process-wide maxConn
    dbVars,      \* the frozen server's READ_ONLY and MAX_CONNECTIONS
    entry,       \* maxConn and dbVars as they were when freeze was called
    calls,       \* freeze: the calls made on the server so far, in order
    err,         \* freeze: err of line 289: "none" before the call, "nil", "error"
    fret         \* freeze: the value returned, "none" before it returns

monVars == <<State, PrevState, FailCount, master, slaves, maxfail, mailTo,
             autorejoin, readonly, checktype, checked, tick, crashed,
             failRun, alerts, declMaster, issued, slaveStatus>>

elVars == <<l, oldState, ignoreList, prefMaster, multiMaster, gtidCheck, i,
            seqList, hiseq, max, ret, elpc, cands>>

raceVars == <<heap, slavesHdr, op, gpc, local>>

frzVars == <<waitKill, fpc, wait, maxConn, dbVars, entry, calls, err, fret>>

vars == <<monVars, elVars, raceVars, frzVars>>

(* ------------------------------ helpers -------------------------------- *)

\* ServerMonitor.delete: swap the first entry of the server with the last
\* entry, then drop the last entry.
RECURSIVE IndexOf(_, _, _)
IndexOf(lsm, s, k) ==
    IF k > Len(lsm) THEN 0
    ELSE IF lsm[k] = s THEN k
    ELSE IndexOf(lsm, s, k + 1)

delete(s, lsm) ==
    LET k == IndexOf(lsm, s, 1) IN
    IF k = 0 THEN lsm
    ELSE SubSeq([lsm EXCEPT ![k] = lsm[Len(lsm)]], 1, Len(lsm) - 1)

\* The probe of check(): TRUE when err == nil afterwards.
ProbeSucceeded(probe) == probe = "ok"

\* With checktype "agent", resp is nil after a network-layer error and
\* resp.StatusCode dereferences it.
ProbePanics(probe) == checktype = "agent" /\ probe = "neterr"

\* Mutant: the threshold test is off by one.
MasterFailStateLate(fc) == IF fc > maxfail THEN stateFailed ELSE stateSuspect

\* Lines 117-124: the master's state after its FailCount was incremented.
MasterFailState(fc) == IF fc >= maxfail THEN stateFailed ELSE stateSuspect

\* Line 118: the "Declaring master as failed" line is logged.
DeclaresMaster(fc) == fc >= maxfail /\ fc = maxfail

\* Lines 129-135: the state of another server after its FailCount was
\* incremented up to the threshold.
ServerFailState(fc) == IF fc = maxfail THEN stateFailed ELSE stateSuspect

\* Line 129: the threshold test of the non-master branch.
ReachedMaxfail(fc) == fc >= maxfail

\* Mutant: a failed probe counts against a Failed server too.
CountsAsServerEvenFailed(prev) == prev # stateMaster

\* Line 127: a failed probe counts against a server of the second branch.
CountsAsServer(prev) == prev # stateMaster /\ prev # stateFailed

\* Mutant: the counter starts over when it reaches maxfail.
IncrementedOrReset(n) == IF n + 1 >= maxfail THEN 0 ELSE n + 1

\* Lines 112 and 128: server.FailCount++.
Incremented(n) == n + 1

\* Mutant: an alert is mailed whether or not the state changed.
AlertAlways(prev, cur) == mailTo

\* Mutant: an alert is mailed whether or not there is a recipient.
AlertWithoutRecipient(prev, cur) == prev # cur

\* Line 142: an alert is mailed.
AlertDue(prev, cur) == prev # cur /\ mailTo

\* Mutant: only a failed server is reintroduced in the slaves list.
ReintroducedIfFailed(prev) == prev = stateFailed

\* Line 196: the server is reintroduced in the slaves list.
Reintroduced(prev) == prev = stateFailed \/ prev = stateUnconn

\* dbhelper.SetReadOnly(conn, true), as the statement it sends.
SetReadOnly == <<"SET READ_ONLY=1">>

\* Line 439: the CHANGE MASTER TO statement, with the master it points at.
ChangeMasterTo(m) == <<"CHANGE MASTER TO", m, "MASTER_USE_GTID=CURRENT_POS">>

\* dbhelper.StartSlave(conn), as the statement it sends.
StartSlave == <<"START SLAVE">>

\* ServerMonitor.rejoin: the statements issued on the rejoining server, in
\* order; none of their errors stops the next one.
rejoin ==
    (IF readonly THEN <<SetReadOnly>> ELSE <<>>)
        \o <<ChangeMasterTo(master), StartSlave>>

(* ------------------------------ initial state -------------------------- *)

\* The sequences that list every member of the set S exactly once.
Orderings(S) ==
    {o \in [1..Cardinality(S) -> S] : \A j, k \in 1..Cardinality(S) : o[j] = o[k] => j = k}

\* The cluster after topology discovery: one master (the servers being
\* alike, the first), every other server a replica (in slaves) or not
\* connected, no failure counted yet.
InitMonitor ==
    /\ master = "db1:3306"
    /\ State \in [Servers -> {stateMaster, stateSlave, stateUnconn}]
    /\ \A s \in Servers : State[s] = stateMaster <=> s = master
    /\ PrevState = State
    /\ FailCount = [s \in Servers |-> 0]
    /\ slaves \in Orderings({s \in Servers : State[s] = stateSlave})
    /\ maxfail \in 1..MaxFailBound
    /\ mailTo \in BOOLEAN
    /\ autorejoin \in BOOLEAN
    /\ readonly \in BOOLEAN
    /\ checktype \in {"tcp", "agent"}
    /\ checked = {}
    /\ tick = 0
    /\ crashed = FALSE
    /\ failRun = [s \in Servers |-> 0]
    /\ alerts = [s \in Servers |-> <<>>]
    /\ declMaster = 0
    /\ issued = <<>>
    /\ slaveStatus = "none"

\* No election is running.
ElectIdle ==
    /\ l = <<>>
    /\ oldState = stateMaster
    /\ ignoreList = {}
    /\ prefMaster = ""
    /\ multiMaster = FALSE
    /\ gtidCheck = FALSE
    /\ i = 0
    /\ seqList = <<>>
    /\ hiseq = 0
    /\ max = 0
    /\ ret = -1
    /\ elpc = "idle"
    /\ cands = <<>>

\* No check() is in the middle of a list operation.
RaceIdle ==
    /\ heap = <<>>
    /\ slavesHdr = [ptr |-> 0, len |-> 0, cap |-> 0]
    /\ op = [s \in Replicas |-> "none"]
    /\ gpc = [s \in Replicas |-> "idle"]
    /\ local = [s \in Replicas |-> [ptr |-> 0, len |-> 0, cap |-> 0, k |-> 0]]

\* No freeze() is running.
FreezeIdle ==
    /\ waitKill = 0
    /\ fpc = "idle"
    /\ wait = 0
    /\ maxConn = ""
    /\ dbVars = [READ_ONLY |-> FALSE, MAX_CONNECTIONS |-> "151"]
    /\ entry = [maxConn |-> "", dbVars |-> dbVars]
    /\ calls = <<>>
    /\ err = "none"
    /\ fret = "none"

Init == InitMonitor /\ ElectIdle /\ RaceIdle /\ FreezeIdle

(* ------------------------------ check() -------------------------------- *)

\* Lines 110-159: the probe failed. The error of a probe is never
\* sql.ErrNoRows, so the first conjunct of line 111 is true; the log lines
\* other than "Declaring master as failed" are left out.
checkFailure(s) ==
    LET prev == State[s]
        counted == prev = stateMaster \/ prev = stateSuspect
        other == ~counted /\ CountsAsServer(prev)
        fc == IF counted \/ other THEN Incremented(FailCount[s]) ELSE FailCount[s]
        cur == IF counted
               THEN (IF s = master THEN MasterFailState(fc) ELSE prev)
               ELSE IF other /\ ReachedMaxfail(fc) THEN ServerFailState(fc)
               ELSE prev
    IN  /\ PrevState' = [PrevState EXCEPT ![s] = prev]
        /\ FailCount' = [FailCount EXCEPT ![s] = fc]
        /\ State' = [State EXCEPT ![s] = cur]
        /\ slaves' = IF other /\ ReachedMaxfail(fc) THEN delete(s, slaves) ELSE slaves
        /\ declMaster' = IF counted /\ s = master /\ DeclaresMaster(fc)
                         THEN declMaster + 1 ELSE declMaster
        /\ alerts' = IF AlertDue(prev, cur)
                     THEN [alerts EXCEPT ![s] = Append(@, cur)] ELSE alerts
        /\ issued' = <<>>
        /\ slaveStatus' = "none"

\* Lines 161-207: the probe succeeded; ss is what GetSlaveStatus came back
\* with. An error other than sql.ErrNoRows falls through to line 196 like a
\* row. The metrics sink of line 163 is left out.
checkSuccess(s, ss) ==
    LET prev == State[s] IN
    /\ PrevState' = [PrevState EXCEPT ![s] = prev]
    /\ IF ss = "norows"
       THEN IF prev = stateFailed
            THEN /\ State' = [State EXCEPT ![s] = stateUnconn]
                 /\ FailCount' = [FailCount EXCEPT ![s] = 0]
                 /\ issued' = IF autorejoin /\ s # master THEN rejoin ELSE <<>>
                 /\ slaves' = slaves
            ELSE /\ State' = [State EXCEPT ![s] =
                                 IF prev # stateMaster THEN stateUnconn ELSE prev]
                 /\ UNCHANGED <<FailCount, slaves>>
                 /\ issued' = <<>>
       ELSE IF Reintroduced(prev)
            THEN /\ State' = [State EXCEPT ![s] = stateSlave]
                 /\ FailCount' = [FailCount EXCEPT ![s] = 0]
                 /\ slaves' = Append(slaves, s)
                 /\ issued' = IF readonly THEN <<SetReadOnly>> ELSE <<>>
            ELSE /\ UNCHANGED <<State, FailCount, slaves>>
                 /\ issued' = <<>>
    /\ slaveStatus' = ss
    /\ UNCHANGED <<alerts, declMaster>>

\* ServerMonitor.check of server s in the current tick, with the probe and
\* slave-status outcomes the environment gives it.
check(s) ==
    /\ ~crashed
    /\ tick < MaxTicks
    /\ s \notin checked
    /\ \E probe \in ProbeOutcomes, ss \in SlaveStatusOutcomes :
          IF ProbePanics(probe)
          THEN /\ crashed' = TRUE
               /\ PrevState' = [PrevState EXCEPT ![s] = State[s]]
               /\ UNCHANGED <<State, FailCount, slaves, alerts, declMaster,
                              issued, slaveStatus, failRun, checked>>
          ELSE /\ IF ProbeSucceeded(probe) THEN checkSuccess(s, ss) ELSE checkFailure(s)
               /\ failRun' = [failRun EXCEPT ![s] =
                                  IF ProbeSucceeded(probe) THEN 0 ELSE @ + 1]
               /\ checked' = checked \cup {s}
               /\ crashed' = crashed
    /\ UNCHANGED <<master, maxfail, mailTo, autorejoin, readonly, checktype, tick>>
    /\ UNCHANGED <<elVars, raceVars, frzVars>>

\* The barrier of a tick (wg.Wait): every check() of the tick has returned.
endTick ==
    /\ ~crashed
    /\ checked = Servers
    /\ checked' = {}
    /\ tick' = tick + 1
    /\ UNCHANGED <<State, PrevState, FailCount, master, slaves, maxfail, mailTo,
                   autorejoin, readonly, checktype, crashed, failRun, alerts,
                   declMaster, issued, slaveStatus>>
    /\ UNCHANGED <<elVars, raceVars, frzVars>>

Next ==
    \/ \E s \in Servers : check(s)
    \/ endTick

Spec == Init /\ [][Next]_vars

(* ------------------------------ electCandidate() ----------------------- *)

\* The lists of at most n candidates.
ListsUpTo(n) == UNION {[1..k -> URLs] : k \in 0..n}

\* Mutant: the preferred master is exempt from the ignore list.
InIgnoreListUnlessPreferred(url) == url \in ignoreList /\ url # prefMaster

\* Line 321: contains(ignoreList, sl.URL).
InIgnoreList(url) == url \in ignoreList

\* Line 329: the guard of the eligibility checks.
ChecksApply == oldState # stateFailed \/ oldState = stateMaster

\* Mutant: the preferred master wins only from the head of the list.
IsPreferredAtHead(url) == url = prefMaster /\ i = 0

\* Line 363: the examined candidate is the preferred master.
IsPreferred(url) == url = prefMaster

\* Lines 373-375: seqList[i] += v for every sequence number.
RECURSIVE SumSeqNos(_)
SumSeqNos(seqnos) ==
    IF seqnos = <<>> THEN 0 ELSE Head(seqnos) + SumSeqNos(Tail(seqnos))

\* Mutant: a tie goes to the later candidate.
TakesLeadOnTie(score, m) == score >= m

\* Line 376: the candidate becomes the highest so far.
TakesLead(score, m) == score > m

\* Lines 381-386: the value returned after the loop.
AfterLoop(m, hi) == IF m > 0 THEN hi ELSE -1

\* A `continue` of the loop: the candidate is skipped.
electSkip ==
    /\ i' = i + 1
    /\ cands' = Append(cands, [skipped |-> TRUE,
                               Delay |-> [Valid |-> FALSE, Int64 |-> 0],
                               seqnos |-> <<>>])
    /\ UNCHANGED <<seqList, hiseq, max, ret, elpc>>

\* Lines 362-379: the candidate passed; delay is its Seconds_Behind_Master,
\* seqnos the sequence numbers of its SlaveGtid.
electScore(delay, seqnos) ==
    /\ cands' = Append(cands, [skipped |-> FALSE, Delay |-> delay, seqnos |-> seqnos])
    /\ IF IsPreferred(l[i + 1])
       THEN /\ ret' = i
            /\ elpc' = "done"
            /\ UNCHANGED <<i, seqList, hiseq, max>>
       ELSE LET score == SumSeqNos(seqnos) IN
            /\ seqList' = [seqList EXCEPT ![i + 1] = score]
            /\ max' = IF TakesLead(score, max) THEN score ELSE max
            /\ hiseq' = IF TakesLead(score, max) THEN i ELSE hiseq
            /\ i' = i + 1
            /\ UNCHANGED <<ret, elpc>>

\* Lines 319-380: one iteration of the loop over the candidates. What the
\* iteration reads of the candidate is drawn where the code reads it.
electIter ==
    /\ elpc = "loop"
    /\ i < Len(l)
    /\ IF InIgnoreList(l[i + 1])
       THEN electSkip
       ELSE IF ~ChecksApply
       THEN \E delay \in Delays, seqnos \in SeqNoLists : electScore(delay, seqnos)
       ELSE \E slState \in {stateSlave, stateMaster} :
            IF multiMaster /\ slState = stateMaster THEN electSkip
            ELSE \E prereq \in BOOLEAN :
            IF ~prereq THEN electSkip
            ELSE \E binlogFilters \in BOOLEAN :
            IF ~binlogFilters THEN electSkip
            ELSE \E replFilters \in BOOLEAN :
            IF ~replFilters THEN electSkip
            ELSE \E delay \in Delays :
            IF ~delay.Valid THEN electSkip
            ELSE IF delay.Int64 > maxDelay THEN electSkip
            ELSE \E sync \in BOOLEAN :
            IF gtidCheck /\ ~sync THEN electSkip
            ELSE \E seqnos \in SeqNoLists : electScore(delay, seqnos)
    /\ UNCHANGED <<l, oldState, ignoreList, prefMaster, multiMaster, gtidCheck>>
    /\ UNCHANGED <<monVars, raceVars, frzVars>>

\* Lines 381-386: the loop is over.
electReturn ==
    /\ elpc = "loop"
    /\ i = Len(l)
    /\ ret' = AfterLoop(max, hiseq)
    /\ elpc' = "done"
    /\ UNCHANGED <<l, oldState, ignoreList, prefMaster, multiMaster, gtidCheck,
                   i, seqList, hiseq, max, cands>>
    /\ UNCHANGED <<monVars, raceVars, frzVars>>

\* electCandidate is entered (lines 312-318) with any list and configuration;
\* the monitor is at rest meanwhile.
InitElect ==
    /\ InitMonitor
    /\ State["db2:3306"] = stateSlave
    /\ maxfail = 1
    /\ ~mailTo
    /\ ~autorejoin
    /\ ~readonly
    /\ checktype = "tcp"
    /\ l \in ListsUpTo(MaxCands)
    /\ oldState \in OldStates
    /\ ignoreList \in SUBSET URLs
    /\ prefMaster \in URLs \cup {""}
    /\ multiMaster \in BOOLEAN
    /\ gtidCheck \in BOOLEAN
    /\ i = 0
    /\ seqList = [k \in 1..Len(l) |-> 0]
    /\ hiseq = 0
    /\ max = 0
    /\ ret = -1
    /\ elpc = "loop"
    /\ cands = <<>>
    /\ RaceIdle
    /\ FreezeIdle

NextElect == electIter \/ electReturn

SpecElect == InitElect /\ [][NextElect]_vars

(* ------------------------------ slaves under concurrent check() ------- *)

\* A fresh backing array of capacity c: every slot is nil.
NilArray(c) == [k \in 1..c |-> "nil"]

\* The capacity append gives the array it allocates when the old one, of
\* capacity c, is full.
GrownCap(c) == IF c = 0 THEN 1 ELSE 2 * c

\* The list a slice header designates.
SliceOf(h) == SubSeq(heap[h.ptr], 1, h.len)

\* The statements of one goroutine leave the rest of the program alone.
RaceFrame ==
    /\ UNCHANGED <<State, PrevState, FailCount, master, slaves, maxfail, mailTo,
                   autorejoin, readonly, checktype, checked, tick, failRun,
                   alerts, declMaster, issued, slaveStatus>>
    /\ UNCHANGED <<elVars, frzVars>>

\* Line 199, slaves = append(slaves, server): the header of slaves is read.
appendLoad(s) ==
    /\ ~crashed
    /\ op[s] = "append"
    /\ gpc[s] = "load"
    /\ local' = [local EXCEPT ![s] = [ptr |-> slavesHdr.ptr, len |-> slavesHdr.len,
                                      cap |-> slavesHdr.cap, k |-> 0]]
    /\ gpc' = [gpc EXCEPT ![s] = "write"]
    /\ UNCHANGED <<heap, slavesHdr, op, crashed>>
    /\ RaceFrame

\* Line 199: the server is written behind the last entry, in the array that
\* was read if it has room, in a fresh copy of it otherwise.
appendWrite(s) ==
    /\ ~crashed
    /\ op[s] = "append"
    /\ gpc[s] = "write"
    /\ LET h == local[s] IN
       IF h.len + 1 > h.cap
       THEN LET c == GrownCap(h.cap)
                a == [k \in 1..c |-> IF k <= h.len THEN heap[h.ptr][k]
                                     ELSE IF k = h.len + 1 THEN s ELSE "nil"]
            IN  /\ heap' = Append(heap, a)
                /\ local' = [local EXCEPT ![s] = [h EXCEPT !.ptr = Len(heap) + 1,
                                                           !.cap = c]]
       ELSE /\ heap' = [heap EXCEPT ![h.ptr][h.len + 1] = s]
            /\ local' = local
    /\ gpc' = [gpc EXCEPT ![s] = "store"]
    /\ UNCHANGED <<slavesHdr, op, crashed>>
    /\ RaceFrame

\* Line 199: the longer slice is assigned to slaves.
appendStore(s) ==
    /\ ~crashed
    /\ op[s] = "append"
    /\ gpc[s] = "store"
    /\ slavesHdr' = [ptr |-> local[s].ptr, len |-> local[s].len + 1,
                     cap |-> local[s].cap]
    /\ gpc' = [gpc EXCEPT ![s] = "done"]
    /\ UNCHANGED <<heap, op, local, crashed>>
    /\ RaceFrame

\* Line 423 (called from line 137), lsm := *sl: the header of slaves is read.
deleteLoad(s) ==
    /\ ~crashed
    /\ op[s] = "delete"
    /\ gpc[s] = "load"
    /\ local' = [local EXCEPT ![s] = [ptr |-> slavesHdr.ptr, len |-> slavesHdr.len,
                                      cap |-> slavesHdr.cap, k |-> 0]]
    /\ gpc' = [gpc EXCEPT ![s] = "scan"]
    /\ UNCHANGED <<heap, slavesHdr, op, crashed>>
    /\ RaceFrame

\* Lines 424-425: the entries are compared by URL up to the first match; the
\* URL of a nil entry is a nil dereference.
deleteScan(s) ==
    /\ ~crashed
    /\ op[s] = "delete"
    /\ gpc[s] = "scan"
    /\ LET lsm == SliceOf(local[s])
           k == IndexOf(lsm, s, 1)
           last == IF k = 0 THEN Len(lsm) ELSE k
       IN  IF \E j \in 1..last : lsm[j] = "nil"
           THEN /\ crashed' = TRUE
                /\ UNCHANGED <<local, gpc>>
           ELSE /\ crashed' = crashed
                /\ local' = [local EXCEPT ![s].k = k]
                /\ gpc' = [gpc EXCEPT ![s] = IF k = 0 THEN "store" ELSE "swap"]
    /\ UNCHANGED <<heap, slavesHdr, op>>
    /\ RaceFrame

\* Lines 426-428: the last entry is copied over the match, the last slot is
\* set to nil and the local slice is shortened.
deleteSwap(s) ==
    /\ ~crashed
    /\ op[s] = "delete"
    /\ gpc[s] = "swap"
    /\ LET h == local[s]
           a == heap[h.ptr]
       IN  /\ heap' = [heap EXCEPT ![h.ptr] =
                          [j \in 1..Len(a) |-> IF j = h.len THEN "nil"
                                               ELSE IF j = h.k THEN a[h.len]
                                               ELSE a[j]]]
           /\ local' = [local EXCEPT ![s].len = h.len - 1]
    /\ gpc' = [gpc EXCEPT ![s] = "store"]
    /\ UNCHANGED <<slavesHdr, op, crashed>>
    /\ RaceFrame

\* Line 432, *sl = lsm: the local slice is assigned to slaves.
deleteStore(s) ==
    /\ ~crashed
    /\ op[s] = "delete"
    /\ gpc[s] = "store"
    /\ slavesHdr' = [ptr |-> local[s].ptr, len |-> local[s].len,
                     cap |-> local[s].cap]
    /\ gpc' = [gpc EXCEPT ![s] = "done"]
    /\ UNCHANGED <<heap, op, local, crashed>>
    /\ RaceFrame

\* One tick has started a check() goroutine for every replica (each takes
\* the WaitGroup of the tick, line 88). The check() of a replica that was
\* Failed, hence out of the list, finds it replicating and appends it; the
\* check() of a replica that is in the list finds it down for the maxfail-th
\* time and deletes it. The array of slaves is full or has a spare slot.
\* The list is followed through heap and slavesHdr; the variables of the
\* tick-level model are held at their initial values.
InitRace ==
    /\ InitMonitor
    /\ State["db2:3306"] = stateSlave
    /\ maxfail = 1
    /\ ~mailTo
    /\ ~autorejoin
    /\ ~readonly
    /\ checktype = "tcp"
    /\ ElectIdle
    /\ FreezeIdle
    /\ op \in [Replicas -> {"append", "delete"}]
    /\ \E extra \in SUBSET Bystanders, spare \in 0..1 :
          \E o \in Orderings({s \in Replicas : op[s] = "delete"} \cup extra) :
              /\ heap = <<o \o NilArray(spare)>>
              /\ slavesHdr = [ptr |-> 1, len |-> Len(o), cap |-> Len(o) + spare]
    /\ gpc = [s \in Replicas |-> "load"]
    /\ local = [s \in Replicas |-> [ptr |-> 0, len |-> 0, cap |-> 0, k |-> 0]]

NextRace ==
    \E s \in Replicas :
        \/ appendLoad(s)
        \/ appendWrite(s)
        \/ appendStore(s)
        \/ deleteLoad(s)
        \/ deleteScan(s)
        \/ deleteSwap(s)
        \/ deleteStore(s)

SpecRace == InitRace /\ [][NextRace]_vars

(* ------------------------------ freeze() ------------------------------- *)

\* dbhelper.CheckLongRunningWrites(conn, 0), as a call on the server.
CheckLongRunningWrites == <<"CheckLongRunningWrites", "0">>

\* dbhelper.GetVariableByName(conn, "MAX_CONNECTIONS").
GetMaxConnections == <<"GetVariableByName", "MAX_CONNECTIONS">>

\* Line 304: the statement that closes the server to new connections.
ZeroMaxConnections == <<"SET GLOBAL max_connections=0">>

\* dbhelper.KillThreads(conn).
KillThreads == <<"KillThreads">>

\* Mutant: the loop goes round once more when the time is exactly used up.
LoopContinuesAtZero(w) == w >= 0

\* Line 295: the condition of the polling loop.
LoopContinues(w) == w > 0

\* freeze leaves the rest of the program alone.
FreezeFrame ==
    /\ UNCHANGED waitKill
    /\ UNCHANGED entry
    /\ UNCHANGED <<monVars, elVars, raceVars>>

\* Lines 289-294: SET READ_ONLY=1; on an error freeze returns false.
freezeSetReadOnly ==
    /\ fpc = "readonly"
    /\ calls' = Append(calls, SetReadOnly)
    /\ \E failed \in BOOLEAN :
          IF failed
          THEN /\ err' = "error"
               /\ fret' = "false"
               /\ fpc' = "done"
               /\ UNCHANGED <<dbVars, wait>>
          ELSE /\ err' = "nil"
               /\ dbVars' = [dbVars EXCEPT !.READ_ONLY = TRUE]
               /\ wait' = waitKill
               /\ fpc' = "poll"
               /\ fret' = fret
    /\ UNCHANGED maxConn
    /\ FreezeFrame

\* Lines 295-302: one round of the loop: the write threads are counted; with
\* none the loop is left, else freeze sleeps one interval.
freezePoll ==
    /\ fpc = "poll"
    /\ LoopContinues(wait)
    /\ calls' = Append(calls, CheckLongRunningWrites)
    /\ \E threads \in 0..1 :
          IF threads = 0
          THEN fpc' = "save" /\ wait' = wait
          ELSE fpc' = "poll" /\ wait' = wait - PollInterval
    /\ UNCHANGED <<maxConn, dbVars, err, fret>>
    /\ FreezeFrame

\* Line 295: the time is used up.
freezeGiveUp ==
    /\ fpc = "poll"
    /\ ~LoopContinues(wait)
    /\ fpc' = "save"
    /\ UNCHANGED <<wait, maxConn, dbVars, calls, err, fret>>
    /\ FreezeFrame

\* Line 303: MAX_CONNECTIONS of the server is saved in maxConn.
freezeSave ==
    /\ fpc = "save"
    /\ calls' = Append(calls, GetMaxConnections)
    /\ maxConn' = dbVars.MAX_CONNECTIONS
    /\ fpc' = "zero"
    /\ UNCHANGED <<wait, dbVars, err, fret>>
    /\ FreezeFrame

\* Line 304: SET GLOBAL max_connections=0; its error is dropped.
freezeZero ==
    /\ fpc = "zero"
    /\ calls' = Append(calls, ZeroMaxConnections)
    /\ \E failed \in BOOLEAN :
          dbVars' = IF failed THEN dbVars
                    ELSE [dbVars EXCEPT !.MAX_CONNECTIONS = "0"]
    /\ fpc' = "kill"
    /\ UNCHANGED <<wait, maxConn, err, fret>>
    /\ FreezeFrame

\* Lines 305-307: the sessions are killed and freeze returns true.
freezeKill ==
    /\ fpc = "kill"
    /\ calls' = Append(calls, KillThreads)
    /\ fret' = "true"
    /\ fpc' = "done"
    /\ UNCHANGED <<wait, maxConn, dbVars, err>>
    /\ FreezeFrame

\* freeze is called on a server, with any waitKill; the monitor is at rest
\* meanwhile.
InitFreeze ==
    /\ InitMonitor
    /\ State["db2:3306"] = stateSlave
    /\ maxfail = 1
    /\ ~mailTo
    /\ ~autorejoin
    /\ ~readonly
    /\ checktype = "tcp"
    /\ ElectIdle
    /\ RaceIdle
    /\ waitKill \in WaitKills
    /\ fpc = "readonly"
    /\ wait = 0
    /\ maxConn \in MaxConnSlots
    /\ dbVars \in [READ_ONLY : BOOLEAN, MAX_CONNECTIONS : MaxConnections]
    /\ entry = [maxConn |-> maxConn, dbVars |-> dbVars]
    /\ calls = <<>>
    /\ err = "none"
    /\ fret = "none"

NextFreeze ==
    \/ freezeSetReadOnly
    \/ freezePoll
    \/ freezeGiveUp
    \/ freezeSave
    \/ freezeZero
    \/ freezeKill

SpecFreeze == InitFreeze /\ [][NextFreeze]_vars

(* ------------------------------ claims: monitor ------------------------ *)

\* The server is an element of the list.
InList(s, lsm) == \E k \in 1..Len(lsm) : lsm[k] = s

\* How many check() calls of s have returned.
NChecks(s) == tick + (IF s \in checked THEN 1 ELSE 0)

\* How many alerts of the given Type were mailed with Origin s.
AlertCount(s, type) == Cardinality({k \in 1..Len(alerts[s]) : alerts[s][k] = type})

\* C1: no server whose state is Failed is an element of the slaves list.
C1_NoFailedInSlaves ==
    \A s \in Servers : State[s] = stateFailed => ~InList(s, slaves)

\* C2: at every tick boundary a server is in the slaves list if and only if
\* its state is Slave or Suspect and it is not the master.
C2_SlavesIffSlaveOrSuspect ==
    checked = {} =>
        \A s \in Servers :
            InList(s, slaves) <=>
                (State[s] \in {stateSlave, stateSuspect} /\ s # master)

\* C3: a server enters state Failed only on a tick that is its maxfail-th
\* consecutive probe failure.
C3_FailedOnlyAfterConsecutiveFailures ==
    [][\A s \in Servers :
          (State[s] # stateFailed /\ State'[s] = stateFailed)
              => failRun'[s] >= maxfail]_vars

\* C4: with maxfail >= 2, while every probe of the master has failed since it
\* was Master with FailCount 0, the master is Suspect after each of the first
\* maxfail-1 ticks and Failed with FailCount = maxfail after tick maxfail and
\* every later one.
C4_MasterHardFailure ==
    LET n == NChecks(master) IN
    (maxfail >= 2 /\ n >= 1 /\ failRun[master] = n) =>
        IF n < maxfail
        THEN State[master] = stateSuspect /\ FailCount[master] = n
        ELSE State[master] = stateFailed /\ FailCount[master] = maxfail

\* The master of a maxfail = 3 cluster after four failing ticks.
C4_Witness ==
    /\ maxfail = 3
    /\ NChecks(master) = 4
    /\ failRun[master] = 4
    /\ State[master] = stateFailed
    /\ FailCount[master] = 3

C6_MasterBlip ==
    [][LET m == master
           k == failRun[m]
       IN  /\ (k = NChecks(m) /\ failRun'[m] = k + 1 /\ k + 1 < maxfail)
                 => (State'[m] = stateSuspect /\ FailCount'[m] = k + 1)
           /\ (k = NChecks(m) /\ k >= 1 /\ k < maxfail /\ failRun'[m] = 0)
                 => (State'[m] = stateMaster /\ FailCount'[m] = k)]_vars

\* C7: a server whose state is Failed never has Slave as its next state.
C7_FailedNeverDirectlySlave ==
    [][\A s \in Servers : State[s] = stateFailed => State'[s] # stateSlave]_vars

\* C7, amended: a server leaves state Failed only on a tick whose probe
\* succeeds, and then for Unconnected (slaves untouched) or directly for
\* Slave (appended to slaves); either way its FailCount is 0 afterwards.
C7_FailedLeavesOnSuccess ==
    [][\A s \in Servers :
          (State[s] = stateFailed /\ State'[s] # stateFailed) =>
              /\ failRun'[s] = 0
              /\ FailCount'[s] = 0
              /\ \/ State'[s] = stateUnconn /\ slaves' = slaves
                 \/ State'[s] = stateSlave /\ slaves' = Append(slaves, s)]_vars

\* A server that check() took from Failed directly to Slave.
C7_Witness ==
    \E s \in Servers :
        /\ PrevState[s] = stateFailed
        /\ State[s] = stateSlave
        /\ InList(s, slaves)

(* ------------------------------ claims: election ----------------------- *)

\* The candidates the loop did not skip, by position (from 1).
NotSkipped == {k \in 1..Len(cands) : ~cands[k].skipped}

\* The score of the candidate at position k: the sum of its sequence numbers.
Score(k) == SumSeqNos(cands[k].seqnos)

\* The greatest score of a candidate that was not skipped, 0 if there is none.
BestScore ==
    IF NotSkipped = {} THEN 0
    ELSE CHOOSE m \in {Score(k) : k \in NotSkipped} :
             \A k \in NotSkipped : Score(k) <= m

\* C8: electCandidate never returns the index of a candidate whose
\* Seconds_Behind_Master is null or greater than maxDelay.
C8_NeverStoppedOrDelayed ==
    (elpc = "done" /\ ret >= 0) =>
        /\ cands[ret + 1].Delay.Valid
        /\ cands[ret + 1].Delay.Int64 <= maxDelay

\* C9: electCandidate never returns the index of a candidate whose URL is in
\* ignoreList.
C9_NeverIgnored ==
    (elpc = "done" /\ ret >= 0) =>
        /\ ret < Len(l)
        /\ l[ret + 1] \notin ignoreList

\* An election whose candidate at index 0 is ignored although it is the
\* preferred master, and which returns the next candidate.
C9_Witness ==
    /\ elpc = "done"
    /\ Len(l) >= 2
    /\ l[1] \in ignoreList
    /\ l[1] = prefMaster
    /\ ret = 1

\* C10: the result is -1 or the index of a candidate that was not skipped;
\* when no such candidate is the preferred master, it is the lowest index
\* among those of the greatest score if that score is positive, else -1.
C10_FirstHighestScore ==
    elpc = "done" =>
        /\ ret = -1 \/ (ret \in 0..(Len(l) - 1) /\ (ret + 1) \in NotSkipped)
        /\ (\A k \in NotSkipped : l[k] # prefMaster) =>
              /\ Len(cands) = Len(l)
              /\ IF BestScore > 0
                 THEN /\ (ret + 1) \in NotSkipped
                      /\ Score(ret + 1) = BestScore
                      /\ \A k \in NotSkipped : Score(k) = BestScore => ret + 1 <= k
                 ELSE ret = -1

\* Three candidates of scores 1, 2, 2: the first of the two highest wins.
C10_Witness ==
    /\ elpc = "done"
    /\ Len(cands) = 3
    /\ NotSkipped = {1, 2, 3}
    /\ Score(1) = 1
    /\ Score(2) = 2
    /\ Score(3) = 2
    /\ \A k \in NotSkipped : l[k] # prefMaster
    /\ ret = 1

\* C11: a candidate whose URL is prefMaster and which no eligibility step
\* skipped is the one returned, at once, whatever its position and whatever
\* the sums of the candidates before it.
C11_PreferredWins ==
    elpc = "done" =>
        \A k \in NotSkipped :
            l[k] = prefMaster => (ret = k - 1 /\ Len(cands) = k)

\* The preferred master is last of three and has the lowest sum; it wins.
C11_Witness ==
    /\ elpc = "done"
    /\ Len(l) = 3
    /\ NotSkipped = {1, 2, 3}
    /\ l[3] = prefMaster
    /\ l[1] # prefMaster
    /\ l[2] # prefMaster
    /\ Score(1) = 2
    /\ Score(2) = 1
    /\ Score(3) = 0
    /\ ret = 2

(* ------------------------------ claims: rejoin, counters, alerts ------- *)

\* check() of server s returns in this step.
Checks(s) == s \notin checked /\ s \in checked'

\* The probe of the check() of s that returns in this step failed.
FailedTick(s) == Checks(s) /\ failRun'[s] = failRun[s] + 1

\* The probe of the check() of s that returns in this step succeeded.
SucceededTick(s) == Checks(s) /\ failRun'[s] = 0

\* The statement is issued, and before it the other one.
IssuedInOrder(first, second, stmts) ==
    \E j, k \in 1..Len(stmts) : j < k /\ stmts[j] = first /\ stmts[k] = second

\* C12: with autorejoin on, the tick that finds a Failed server other than
\* the master reachable and without slave status makes it Unconnected with
\* FailCount 0 and issues CHANGE MASTER TO (the current master, GTID
\* CURRENT_POS) and then START SLAVE on it; the tick that finds an
\* Unconnected server reachable with slave status makes it Slave and an
\* element of the slaves list.
C12_RejoinAfterFailure ==
    [][\A s \in Servers :
          /\ (/\ autorejoin
               /\ s # master
               /\ State[s] = stateFailed
               /\ SucceededTick(s)
               /\ slaveStatus' = "norows") =>
                  /\ State'[s] = stateUnconn
                  /\ FailCount'[s] = 0
                  /\ IssuedInOrder(ChangeMasterTo(master), StartSlave, issued')
          /\ (/\ State[s] = stateUnconn
               /\ SucceededTick(s)
               /\ slaveStatus' = "rows") =>
                  /\ State'[s] = stateSlave
                  /\ FailCount'[s] = 0
                  /\ InList(s, slaves')]_vars

\* A replica of a maxfail = 1 cluster after three ticks: it failed, was
\* rejoined as Unconnected, and is a Slave in the list again.
C12_Witness ==
    \E s \in Servers :
        /\ autorejoin
        /\ mailTo
        /\ maxfail = 1
        /\ s # master
        /\ NChecks(s) = 3
        /\ alerts[s] = <<stateFailed>>
        /\ PrevState[s] = stateUnconn
        /\ State[s] = stateSlave
        /\ slaveStatus = "rows"
        /\ FailCount[s] = 0
        /\ InList(s, slaves)

(* ------------------------------ claims: concurrency -------------------- *)

\* Every check() goroutine of the tick has returned: the barrier is passed.
AfterBarrier == \A s \in Replicas : gpc[s] = "done"

\* C13: under every interleaving of the checks of one tick, after the
\* barrier the slaves list contains every server appended during the tick
\* and none of the servers deleted during it.
C13_NoLostOrResurrected ==
    AfterBarrier =>
        \A s \in Replicas :
            /\ op[s] = "append" => InList(s, SliceOf(slavesHdr))
            /\ op[s] = "delete" => ~InList(s, SliceOf(slavesHdr))

(* ------------------------------ claims: counters, states, alerts ------- *)

\* check() of server s dies of a panic in this step.
PanickedTick(s) == ~crashed /\ crashed' /\ PrevState'[s] = State[s]

\* How many entries of the list are the server.
Occurrences(s, lsm) == Cardinality({k \in 1..Len(lsm) : lsm[k] = s})

\* C14: a server's FailCount changes only by +1 on a tick whose probe
\* failed or by being set to 0 on a tick whose probe succeeded; it never
\* decreases to a non-zero value and is never reset on a failing tick.
C14_FailCountSteps ==
    [][\A s \in Servers :
          /\ FailCount'[s] # FailCount[s] =>
                \/ FailedTick(s) /\ FailCount'[s] = FailCount[s] + 1
                \/ SucceededTick(s) /\ FailCount'[s] = 0
          /\ FailCount'[s] < FailCount[s] => FailCount'[s] = 0
          /\ FailedTick(s) => FailCount'[s] >= FailCount[s]]_vars

\* A server whose FailCount went up to maxfail = 2 and was set to 0 by the
\* tick that found it reachable again.
C14_Witness ==
    \E s \in Servers :
        /\ maxfail = 2
        /\ PrevState[s] = stateFailed
        /\ State[s] # stateFailed
        /\ failRun[s] = 0
        /\ FailCount[s] = 0

\* C15: a probe failure of a server that is not the master and whose state
\* is neither Master nor Failed increments FailCount; below maxfail the
\* state becomes Suspect and the server stays in slaves, at maxfail the
\* state becomes Failed and the server is removed from slaves.
C15_ReplicaFailure ==
    [][\A s \in Servers :
          (/\ s # master
           /\ State[s] \notin {stateMaster, stateFailed}
           /\ FailedTick(s)) =>
              /\ FailCount'[s] = FailCount[s] + 1
              /\ IF FailCount'[s] < maxfail
                 THEN /\ State'[s] = stateSuspect
                      /\ InList(s, slaves) => InList(s, slaves')
                 ELSE /\ State'[s] = stateFailed
                      /\ ~InList(s, slaves')]_vars

\* C16: with checktype agent no probe outcome crashes the monitor.
C16_AgentProbeNeverPanics ==
    checktype = "agent" => ~crashed

\* C19: a tick whose probe fails mails one alert, with Origin the server and
\* Type the state just written, if that state differs from the state at the
\* start of the tick and mailTo is set; otherwise it mails none.
C19_OneAlertPerChange ==
    [][\A s \in Servers :
          (FailedTick(s) \/ PanickedTick(s)) =>
              /\ alerts'[s] =
                     IF State'[s] # State[s] /\ mailTo
                     THEN Append(alerts[s], State'[s])
                     ELSE alerts[s]
              /\ \A t \in Servers \ {s} : alerts'[t] = alerts[t]]_vars

\* The master of a maxfail = 2 cluster after three failing ticks: one alert
\* for Suspect, one for Failed, none for the tick that left it Failed.
C19_Witness ==
    /\ mailTo
    /\ maxfail = 2
    /\ NChecks(master) = 3
    /\ failRun[master] = 3
    /\ State[master] = stateFailed
    /\ PrevState[master] = stateFailed
    /\ alerts[master] = <<stateSuspect, stateFailed>>

\* C20: the slaves list holds every server at most once.
C20_NoDuplicateInSlaves ==
    \A s \in Servers : Occurrences(s, slaves) <= 1

(* ------------------------------ claims: election, continued ------------ *)

\* C18: given exactly one slave, electCandidate returns index 0.
C18_OnlySlaveIsCandidate ==
    (elpc = "done" /\ Len(l) = 1) => ret = 0

(* ------------------------------ claims: freeze ------------------------- *)

\* How many times freeze has polled for write threads.
Polls == Cardinality({k \in 1..Len(calls) : calls[k] = CheckLongRunningWrites})

\* ceil(waitKill / PollInterval).
PollLimit == (waitKill + PollInterval - 1) \div PollInterval

\* The calls of a freeze that polls n times and goes through, in order.
FullFreeze(n) ==
    <<SetReadOnly>> \o [k \in 1..n |-> CheckLongRunningWrites]
        \o <<GetMaxConnections, ZeroMaxConnections, KillThreads>>

\* C17: freeze calls SET READ_ONLY=1, the polls (at most
\* ceil(waitKill/500) of them), the read of MAX_CONNECTIONS into maxConn,
\* SET GLOBAL max_connections=0 and the kill, in this order; when SET
\* READ_ONLY fails it returns false at once, with maxConn and the server's
\* max_connections as they were and no session killed; when it returns true
\* maxConn is the value MAX_CONNECTIONS had when freeze was called.
C17_FreezeOrder ==
    /\ Polls <= PollLimit
    /\ Len(calls) <= Len(FullFreeze(Polls))
    /\ calls = SubSeq(FullFreeze(Polls), 1, Len(calls))
    /\ (fpc = "done") = (fret # "none")
    /\ (err = "error") = (fret = "false")
    /\ fret = "false" =>
          /\ calls = <<SetReadOnly>>
          /\ maxConn = entry.maxConn
          /\ dbVars = entry.dbVars
    /\ fret = "true" =>
          /\ calls = FullFreeze(Polls)
          /\ dbVars.READ_ONLY
          /\ maxConn = entry.dbVars.MAX_CONNECTIONS

\* A freeze with waitKill = 501 that met write threads at both polls, then
\* replaced the 100 held in maxConn by the server's 151 and zeroed the latter.
C17_Witness ==
    /\ fret = "true"
    /\ waitKill = PollInterval + 1
    /\ Polls = 2
    /\ wait < 0
    /\ entry.maxConn = "100"
    /\ maxConn = "151"
    /\ dbVars.MAX_CONNECTIONS = "0"

====
